---- MODULE Spec2Model ----
(***************************************************************************)
(* Model of ba/_assetmanager.py: the AssetManager (persisted State,        *)
(* load/save, save-on-shutdown), AssetGather and the chunked download      *)
(* routine fetch_url.                                                      *)
(***************************************************************************)
EXTENDS Integers, Sequences, FiniteSets, TLC

\* ---------------------------------------------------------------- bounds
\* Largest number of data-returning reads one stream delivers.
MaxChunks == 2
\* Largest value of the Content-Length header that is enumerated.
MaxSize == 3

\* ------------------------------------------------------ program constants
\* `if time_outs > 3`
TimeoutThreshold == 3

\* ------------------------------------------------------------ record codec
\* Keys of the State.files mapping, in the order the encoder emits them.
KeyOrder == <<"k1", "k2">>

Keys == {KeyOrder[i] : i \in 1..Len(KeyOrder)}

\* A default-constructed State: no files.
DefaultState == [set |-> TRUE, files |-> {}]

\* The partially constructed object has no _state attribute at all.
NoState == [set |-> FALSE, files |-> {}]

\* State.to_json_str: the files mapping as a brace-delimited key list.
to_json_str(st) ==
    <<"{">> \o SelectSeq(KeyOrder, LAMBDA k : k \in st.files) \o <<"}">>

\* Whether State.from_json_str accepts a text.
Decodes(t) ==
    /\ Len(t) >= 2
    /\ t[1] = "{"
    /\ t[Len(t)] = "}"
    /\ \A i \in 2..(Len(t) - 1) : t[i] \in Keys

\* State.from_json_str on a text it accepts (keys in any order).
from_json_str(t) ==
    [set |-> TRUE, files |-> {t[i] : i \in 2..(Len(t) - 1)}]

\* Key lists without repetition, in every order.
KeySeqs ==
    UNION {{s \in [1..n -> Keys] : \A i, j \in 1..n : i # j => s[i] # s[j]}
           : n \in 0..Len(KeyOrder)}

\* Texts the codec accepts.
ValidTexts == {<<"{">> \o s \o <<"}">> : s \in KeySeqs}

\* Strict prefixes of a text: what an interrupted write leaves behind.
Prefixes(t) == {SubSeq(t, 1, n) : n \in 0..(Len(t) - 1)}

\* Texts that can be found in the state file.
Texts == ValidTexts \cup UNION {Prefixes(t) : t \in ValidTexts}

\* ------------------------------------------------------------- filesystem
AbsentFile == [kind |-> "absent", text |-> <<>>]

UnreadableFile == [kind |-> "unreadable", text |-> <<>>]

TextFile(t) == [kind |-> "text", text |-> t]

StateFiles == {AbsentFile, UnreadableFile} \cup {TextFile(t) : t \in Texts}

VARIABLES
    rootKind,       \* what rootdir is on disk: "dir", "file" or "missing"
    stateFile,      \* <rootdir>/state
    mgr,            \* "none", "failed" (constructor raised), "live", "dead"
    shutting_down,  \* AssetManager._shutting_down
    state,          \* AssetManager._state
    raised,         \* exception that escaped the last call, or "none"
    lastOp,         \* the last manager operation and its outcome
    dlFile,         \* <rootdir>/testdl, the output file of fetch_url
    pc,             \* position of fetch_url: "idle", "open", "read", "sleep", "done"
    file_size,      \* fetch_url: declared size from Content-Length
    file_size_dl,   \* fetch_url: bytes received so far
    time_outs,      \* fetch_url: the timeout counter
    reads,          \* outcomes of the reads issued on the stream, in order
    progress,       \* progress reports written so far, in order
    result,         \* how the attempt ended, "none" while it has not
    gather,         \* the AssetGather: "none", "constructing", "returned", "raised"
    reachable       \* whether the AssetGather is still referenced from outside

mvars == <<rootKind, stateFile, mgr, shutting_down, state>>

fvars == <<dlFile, pc, file_size, file_size_dl, time_outs, reads, progress,
           result, gather, reachable>>

vars == <<rootKind, stateFile, mgr, shutting_down, state, raised, lastOp,
          dlFile, pc, file_size, file_size_dl, time_outs, reads, progress,
          result, gather, reachable>>

\* fetch_url runs synchronously inside launch_gather: while it runs the
\* manager executes nothing else.
Running == pc \in {"open", "read", "sleep"}

\* ------------------------------------------------------------ AssetManager
\* load_state without its `except Exception`: a rejected or unreadable
\* file raises and leaves _state unassigned.
load_state_Propagates(file) ==
    IF file.kind = "text" /\ Decodes(file.text)
    THEN [state |-> from_json_str(file.text), raised |-> "none"]
    ELSE IF file.kind = "absent"
    THEN [state |-> DefaultState, raised |-> "none"]
    ELSE [state |-> NoState, raised |-> "Exception"]

\* AssetManager.load_state: the new _state and the exception that escapes.
load_state(file) ==
    IF file.kind = "text" /\ Decodes(file.text)
    THEN [state |-> from_json_str(file.text), raised |-> "none"]
    ELSE [state |-> DefaultState, raised |-> "none"]

\* open(self.state_path, 'w') succeeds only inside an existing directory.
OpenForWrite(kind, io) == kind = "dir" /\ io # "open_fail"

\* save_state without its `except Exception`: a failed open or write
\* raises.
save_state_Raises(kind, file, st, io, cut) ==
    IF ~OpenForWrite(kind, io)
    THEN [file |-> file, raised |-> "OSError"]
    ELSE IF ~st.set
    THEN [file |-> TextFile(<<>>), raised |-> "AttributeError"]
    ELSE IF io = "write_fail"
    THEN [file |-> TextFile(cut), raised |-> "OSError"]
    ELSE [file |-> TextFile(to_json_str(st)), raised |-> "none"]

\* save_state that opens the file and writes the default State's text.
save_state_Default(kind, file, st, io, cut) ==
    IF ~OpenForWrite(kind, io)
    THEN [file |-> file, raised |-> "none"]
    ELSE [file |-> TextFile(to_json_str(DefaultState)), raised |-> "none"]

\* AssetManager.save_state: the new state file and the escaping exception.
\* io is the outcome the filesystem gives: "ok", "open_fail", "write_fail".
save_state(kind, file, st, io, cut) ==
    IF ~OpenForWrite(kind, io)
    THEN [file |-> file, raised |-> "none"]
    ELSE IF ~st.set
    THEN [file |-> TextFile(<<>>), raised |-> "none"]
    ELSE IF io = "write_fail"
    THEN [file |-> TextFile(cut), raised |-> "none"]
    ELSE [file |-> TextFile(to_json_str(st)), raised |-> "none"]

\* update that saves on every call.
update_AlwaysSaves(shutting, kind, file, st, io, cut) ==
    save_state(kind, file, st, io, cut)

\* update that never saves.
update_NoSave(shutting, kind, file, st, io, cut) ==
    [file |-> file, raised |-> "none"]

\* AssetManager.update: saves only when shutting down.
update(shutting, kind, file, st, io, cut) ==
    IF shutting
    THEN save_state(kind, file, st, io, cut)
    ELSE [file |-> file, raised |-> "none"]

IoOutcomes == {"ok", "open_fail", "write_fail"}

\* Whether the filesystem lets the state file be opened and written in full.
WriteSucceeds(kind, io) == kind = "dir" /\ io = "ok"

\* Cut points of an interrupted write of st.
Cuts(st) == IF st.set THEN Prefixes(to_json_str(st)) ELSE {<<>>}

\* __init__ without the is_dir check.
Construct_NoCheck ==
    /\ mgr \in {"none", "dead"}
    /\ shutting_down' = FALSE
    /\ mgr' = "live"
    /\ state' = load_state(stateFile).state
    /\ raised' = load_state(stateFile).raised
    /\ lastOp' = "init"
    /\ UNCHANGED <<rootKind, stateFile, fvars>>

\* AssetManager.__init__
Construct ==
    /\ mgr \in {"none", "dead"}
    /\ shutting_down' = FALSE
    /\ IF rootKind # "dir"
       THEN /\ mgr' = "failed"
            /\ raised' = "RuntimeError"
            /\ lastOp' = "init_failed"
            /\ state' = NoState
            /\ UNCHANGED stateFile
       ELSE /\ mgr' = "live"
            /\ state' = load_state(stateFile).state
            /\ raised' = load_state(stateFile).raised
            /\ lastOp' = "init"
            /\ UNCHANGED stateFile
    /\ UNCHANGED <<rootKind, fvars>>

\* AssetManager.load_state called on a live manager.
LoadState ==
    /\ mgr = "live" /\ ~Running
    /\ state' = load_state(stateFile).state
    /\ raised' = load_state(stateFile).raised
    /\ lastOp' = IF lastOp = "save_io_ok" THEN "load_after_save" ELSE "load"
    /\ UNCHANGED <<rootKind, stateFile, mgr, shutting_down, fvars>>

\* AssetManager.save_state called on a live manager.
SaveState ==
    /\ mgr = "live" /\ ~Running
    /\ \E io \in IoOutcomes : \E cut \in Cuts(state) :
         LET r == save_state(rootKind, stateFile, state, io, cut) IN
           /\ stateFile' = r.file
           /\ raised' = r.raised
           /\ lastOp' = IF WriteSucceeds(rootKind, io)
                        THEN "save_io_ok" ELSE "save_io_failed"
    /\ UNCHANGED <<rootKind, mgr, shutting_down, state, fvars>>

\* AssetManager.update called on a live manager.
Update ==
    /\ mgr = "live" /\ ~Running
    /\ \E io \in IoOutcomes : \E cut \in Cuts(state) :
         LET r == update(shutting_down, rootKind, stateFile, state, io, cut) IN
           /\ stateFile' = r.file
           /\ raised' = r.raised
    /\ lastOp' = "update"
    /\ UNCHANGED <<rootKind, mgr, shutting_down, state, fvars>>

\* AssetManager.__del__, also run on the object whose constructor raised.
Del ==
    /\ mgr \in {"live", "failed"} /\ ~Running
    /\ shutting_down' = TRUE
    /\ \E io \in IoOutcomes : \E cut \in Cuts(state) :
         LET r == update(TRUE, rootKind, stateFile, state, io, cut) IN
           /\ stateFile' = r.file
           /\ raised' = r.raised
           /\ lastOp' = IF WriteSucceeds(rootKind, io)
                        THEN "del_io_ok" ELSE "del_io_failed"
    /\ mgr' = "dead"
    /\ UNCHANGED <<rootKind, state, fvars>>

\* ------------------------------------------------- AssetGather, fetch_url
\* The data chunks a stream can deliver, and len(data) of each.
Chunks == {"a", "b"}

ChunkLen(c) == IF c = "a" THEN 1 ELSE 2

\* The output file: absent, or holding a sequence of chunks.
NoOutput == [exists |-> FALSE, data |-> <<>>]

OldOutput == [exists |-> TRUE, data |-> <<"old">>]

\* open(filename, 'ab'): creates the file or keeps what it holds.
OpenTruncate_Append(f) == [exists |-> TRUE, data |-> f.data]

\* open(filename, 'wb'): creates the file or truncates it.
OpenTruncate(f) == [exists |-> TRUE, data |-> <<>>]

\* outfile.write(data)
Write(f, c) == [exists |-> f.exists, data |-> Append(f.data, c)]

\* An unlink that leaves the file in place.
Unlink_Keep(f) == f

\* os.unlink(filename)
Unlink(f) == [exists |-> FALSE, data |-> <<>>]

\* `if time_outs > 3`: whether a timed-out read gives up.
GivesUp(t) == t > TimeoutThreshold

\* A data read that resets the timeout counter.
AfterData_Reset(t) == 0

\* The timeout counter after a read that returned data: line 203-208 do
\* not touch time_outs.
AfterData(t) == t

\* The {percent:.2%} of a report, in hundredths of a percent.
Percent(dl, size) == (20000 * dl + size) \div (2 * size)

\* The data-returning reads of a log, in order.
DataOf(log) == SelectSeq(log, LAMBDA r : r \in Chunks)

\* What the header lookup int(ureq.headers["Content-Length"]) can meet.
Headers == {"absent", "nonnumeric", "numeric"}

\* AssetGather.valid: `return True`.
valid == TRUE

\* AssetManager.launch_gather -> AssetGather.__init__ up to the fetch_url
\* call; weak_gather = weakref.ref(asset_gather).
LaunchGather ==
    /\ mgr = "live" /\ ~Running
    /\ gather' = "constructing"
    /\ reachable' = TRUE
    /\ pc' = "open"
    /\ file_size' = 0
    /\ file_size_dl' = 0
    /\ time_outs' = 0
    /\ reads' = <<>>
    /\ progress' = <<>>
    /\ result' = "none"
    /\ raised' = "none"
    /\ lastOp' = "launch_gather"
    /\ UNCHANGED <<mvars, dlFile>>

\* An exception leaves fetch_url; nothing between it and the caller of
\* launch_gather catches it.
Raise(res, exc) ==
    /\ pc' = "done"
    /\ result' = res
    /\ raised' = exc
    /\ gather' = "raised"

\* A fetch that reads the first block before it looks at the header.
UrlOpen_ReadFirst ==
    /\ pc = "open"
    /\ \E opened \in BOOLEAN : \E h \in Headers : \E n \in 0..MaxSize :
         IF ~opened
         THEN /\ Raise("io_error", "URLError")
              /\ UNCHANGED <<file_size, dlFile, reads>>
         ELSE IF h = "absent"
         THEN /\ Raise("bad_response", "TypeError")
              /\ reads' = Append(reads, "eof")
              /\ UNCHANGED <<file_size, dlFile>>
         ELSE IF h = "nonnumeric"
         THEN /\ Raise("bad_response", "ValueError")
              /\ reads' = Append(reads, "eof")
              /\ UNCHANGED <<file_size, dlFile>>
         ELSE /\ file_size' = n
              /\ dlFile' = OpenTruncate(dlFile)
              /\ pc' = "read"
              /\ UNCHANGED <<result, raised, gather, reads>>
    /\ UNCHANGED <<mvars, lastOp, file_size_dl, time_outs, progress, reachable>>

\* urlopen, the Content-Length header, open(filename, 'wb').
UrlOpen ==
    /\ pc = "open"
    /\ \E opened \in BOOLEAN : \E h \in Headers : \E n \in 0..MaxSize :
         IF ~opened
         THEN /\ Raise("io_error", "URLError")
              /\ UNCHANGED <<file_size, dlFile>>
         ELSE IF h = "absent"
         THEN /\ Raise("bad_response", "TypeError")
              /\ UNCHANGED <<file_size, dlFile>>
         ELSE IF h = "nonnumeric"
         THEN /\ Raise("bad_response", "ValueError")
              /\ UNCHANGED <<file_size, dlFile>>
         ELSE /\ file_size' = n
              /\ dlFile' = OpenTruncate(dlFile)
              /\ pc' = "read"
              /\ UNCHANGED <<result, raised, gather>>
    /\ UNCHANGED <<mvars, lastOp, file_size_dl, time_outs, reads, progress,
                   reachable>>

\* A data read that reports len(data) instead of the running byte count.
ReadData_ChunkBytes ==
    /\ pc = "read"
    /\ Len(DataOf(reads)) < MaxChunks
    /\ \E c \in Chunks :
         /\ file_size_dl + ChunkLen(c) <= file_size
         /\ reads' = Append(reads, c)
         /\ file_size_dl' = file_size_dl + ChunkLen(c)
         /\ dlFile' = Write(dlFile, c)
         /\ progress' = Append(progress,
                [bytes |-> ChunkLen(c),
                 pct |-> Percent(ChunkLen(c), file_size)])
    /\ time_outs' = AfterData(time_outs)
    /\ UNCHANGED <<mvars, lastOp, raised, pc, file_size, result, gather,
                   reachable>>

\* ureq.read returns data.  An HTTP body never runs past its
\* Content-Length.
ReadData ==
    /\ pc = "read"
    /\ Len(DataOf(reads)) < MaxChunks
    /\ \E c \in Chunks :
         /\ file_size_dl + ChunkLen(c) <= file_size
         /\ reads' = Append(reads, c)
         /\ file_size_dl' = file_size_dl + ChunkLen(c)
         /\ dlFile' = Write(dlFile, c)
         /\ progress' = Append(progress,
                [bytes |-> file_size_dl + ChunkLen(c),
                 pct |-> Percent(file_size_dl + ChunkLen(c), file_size)])
    /\ time_outs' = AfterData(time_outs)
    /\ UNCHANGED <<mvars, lastOp, raised, pc, file_size, result, gather,
                   reachable>>

\* An end-of-stream that reports success and keeps looping.
ReadEof_NoBreak ==
    /\ pc = "read"
    /\ reads' = Append(reads, "eof")
    /\ pc' = "read"
    /\ result' = "completed"
    /\ gather' = "returned"
    /\ UNCHANGED <<mvars, lastOp, raised, dlFile, file_size, file_size_dl,
                   time_outs, progress, reachable>>

\* ureq.read returns no data: break, fetch_url returns, and so do
\* AssetGather.__init__ and launch_gather.
ReadEof ==
    /\ pc = "read"
    /\ reads' = Append(reads, "eof")
    /\ pc' = "done"
    /\ result' = "completed"
    /\ gather' = "returned"
    /\ UNCHANGED <<mvars, lastOp, raised, dlFile, file_size, file_size_dl,
                   time_outs,
                   progress, reachable>>

\* ureq.read raises socket.timeout.
ReadTimeout ==
    /\ pc = "read"
    /\ reads' = Append(reads, "timeout")
    /\ IF GivesUp(time_outs)
       THEN \E unlinked \in BOOLEAN :
              IF unlinked
              THEN /\ dlFile' = Unlink(dlFile)
                   /\ Raise("timeout_exhausted", "socket.timeout")
              ELSE /\ dlFile' = dlFile
                   /\ Raise("io_error", "OSError")
       ELSE /\ pc' = "sleep"
            /\ UNCHANGED <<dlFile, result, raised, gather>>
    /\ UNCHANGED <<mvars, lastOp, file_size, file_size_dl, time_outs, progress,
                   reachable>>

\* A read error that removes the partial output file before it propagates.
ReadError_Cleanup ==
    /\ pc = "read"
    /\ reads' = Append(reads, "error")
    /\ Raise("io_error", "OSError")
    /\ dlFile' = Unlink(dlFile)
    /\ UNCHANGED <<mvars, lastOp, file_size, file_size_dl, time_outs,
                   progress, reachable>>

\* ureq.read raises anything else.
ReadError ==
    /\ pc = "read"
    /\ reads' = Append(reads, "error")
    /\ Raise("io_error", "OSError")
    /\ UNCHANGED <<mvars, lastOp, dlFile, file_size, file_size_dl, time_outs,
                   progress, reachable>>

\* A pause that never ends.
Sleep_Forever ==
    /\ pc = "sleep"
    /\ UNCHANGED vars

\* time.sleep(3); time_outs += 1; continue
Sleep ==
    /\ pc = "sleep"
    /\ time_outs' = time_outs + 1
    /\ pc' = "read"
    /\ UNCHANGED <<mvars, lastOp, raised, dlFile, file_size, file_size_dl, reads,
                   progress, result, gather, reachable>>

\* The owner of the AssetGather lets go of it while the transfer is between
\* two reads or in its pause.
DropGather ==
    /\ pc \in {"read", "sleep"}
    /\ reachable
    /\ reachable' = FALSE
    /\ UNCHANGED <<mvars, lastOp, raised, dlFile, pc, file_size, file_size_dl,
                   time_outs, reads, progress, result, gather>>

Init ==
    /\ rootKind \in {"dir", "file", "missing"}
    /\ stateFile \in (IF rootKind = "dir" THEN StateFiles ELSE {AbsentFile})
    /\ mgr = "none"
    /\ shutting_down = FALSE
    /\ state = NoState
    /\ raised = "none"
    /\ lastOp = "none"
    /\ dlFile \in (IF rootKind = "dir" THEN {NoOutput, OldOutput} ELSE {NoOutput})
    /\ pc = "idle"
    /\ file_size = 0
    /\ file_size_dl = 0
    /\ time_outs = 0
    /\ reads = <<>>
    /\ progress = <<>>
    /\ result = "none"
    /\ gather = "none"
    /\ reachable = FALSE

Next ==
    \/ Construct
    \/ LoadState
    \/ SaveState
    \/ Update
    \/ Del
    \/ LaunchGather
    \/ UrlOpen
    \/ ReadData
    \/ ReadEof
    \/ ReadTimeout
    \/ ReadError
    \/ Sleep
    \/ DropGather

Spec == Init /\ [][Next]_vars

\* One step of fetch_url: urlopen and each read return within the 1 second
\* timeout passed to urlopen, and time.sleep(3) returns.
FetchStep ==
    \/ UrlOpen
    \/ ReadData
    \/ ReadEof
    \/ ReadTimeout
    \/ ReadError
    \/ Sleep

\* The program with fetch_url never suspended for ever.
FairSpec == Init /\ [][Next]_vars /\ WF_vars(FetchStep)

\* ------------------------------------------------------------- properties
RECURSIVE TrailingTimeouts(_)
\* Number of timed-out reads at the end of a log.
TrailingTimeouts(log) ==
    IF log = <<>> \/ log[Len(log)] # "timeout"
    THEN 0
    ELSE 1 + TrailingTimeouts(SubSeq(log, 1, Len(log) - 1))

RECURSIVE MaxTimeoutRun(_)
\* Length of the longest run of consecutive timed-out reads in a log.
MaxTimeoutRun(log) ==
    IF log = <<>>
    THEN 0
    ELSE LET rest == MaxTimeoutRun(SubSeq(log, 1, Len(log) - 1))
             tail == TrailingTimeouts(log)
         IN IF tail > rest THEN tail ELSE rest

\* The attempt launched last is the last thing that happened.
FetchEnded == pc = "done" /\ lastOp = "launch_gather"

\* C1: once 4 consecutive reads have timed out the download is over as
\* timeout-exhausted, with the output file absent; no 5th read follows.
C1_FourthTimeoutEnds ==
    TrailingTimeouts(reads) >= TimeoutThreshold + 1
        => /\ pc = "done"
           /\ result = "timeout_exhausted"
           /\ ~dlFile.exists

\* C2: the counter counts consecutive timeouts only: a read that returned
\* data leaves it at zero, and an attempt ends as timeout-exhausted only
\* when its most recent reads, more than 3 of them, all timed out.
C2_ConsecutiveOnly ==
    /\ (pc = "read" /\ reads # <<>> /\ reads[Len(reads)] \in Chunks)
          => time_outs = 0
    /\ result = "timeout_exhausted"
          => TrailingTimeouts(reads) > TimeoutThreshold

\* C3: once the AssetGather is no longer reachable from outside, fetch_url
\* issues no further read and the attempt ends as cancelled.
C3_CancelOnDisappearance ==
    [][(~reachable /\ pc \in {"read", "sleep"})
         => (reads' = reads /\ (pc' = "done" => result' = "cancelled"))]_vars

\* C4: an attempt that ends as timeout-exhausted has deleted the output
\* file and has raised the timeout to its caller.
C4_DeletedAndRaised ==
    (FetchEnded /\ result = "timeout_exhausted")
        => /\ ~dlFile.exists
           /\ raised = "socket.timeout"
           /\ gather = "raised"

\* C4 witness: a timeout-exhausted attempt that had written data.
C4_Witness ==
    /\ FetchEnded
    /\ result = "timeout_exhausted"
    /\ DataOf(reads) # <<>>

\* C5: a stream of data chunks and end-of-stream, with timeouts in runs of
\* at most 3 between them, ends completed with the output file holding the
\* chunks in order, and with a last report of 100% when the declared size
\* was received.
C5_ChunksConcatenated ==
    (reads # <<>> /\ "error" \notin {reads[i] : i \in 1..Len(reads)}
       /\ MaxTimeoutRun(reads) <= TimeoutThreshold)
        => /\ result \in {"none", "completed"}
           /\ (FetchEnded /\ "eof" \in {reads[i] : i \in 1..Len(reads)})
                => /\ result = "completed"
                   /\ dlFile = [exists |-> TRUE, data |-> DataOf(reads)]
                   /\ (file_size_dl = file_size /\ file_size > 0)
                        => /\ progress # <<>>
                           /\ progress[Len(progress)].pct = 10000

\* C6: load_state never raises; a missing, unreadable or rejected state
\* file leaves the default, empty State, and a file that decodes leaves
\* the decoded State.
C6_LoadInfallible ==
    lastOp \in {"init", "load", "load_after_save"}
        => /\ raised = "none"
           /\ state.set
           /\ (stateFile.kind # "text" \/ ~Decodes(stateFile.text))
                => state.files = {}
           /\ (stateFile.kind = "text" /\ Decodes(stateFile.text))
                => state.files = {stateFile.text[i] :
                                    i \in 2..(Len(stateFile.text) - 1)}

\* C6 witness: load_state has run on a file holding text the codec rejects.
C6_Witness ==
    /\ lastOp = "load"
    /\ stateFile.kind = "text"
    /\ ~Decodes(stateFile.text)

\* C7: load_state right after a successful save_state yields a State with
\* the files mapping that was saved.
C7_RoundTrip ==
    [][(lastOp = "save_io_ok" /\ lastOp' = "load_after_save")
         => (state'.set /\ state'.files = state.files)]_vars

\* C7 witness: a State with files has been saved and loaded back.
C7_Witness ==
    /\ lastOp = "load_after_save"
    /\ state.files = Keys

\* C8: with a rootdir that is not a directory the constructor raises the
\* configuration error, no State is loaded and nothing is created on disk,
\* neither by the constructor nor by __del__ of the partial object.
C8_NoSideEffects ==
    rootKind # "dir"
        => /\ mgr # "live"
           /\ ~state.set
           /\ stateFile = AbsentFile
           /\ ~dlFile.exists
           /\ lastOp = "init_failed" => raised = "RuntimeError"

\* C8 witness: the partial object has been torn down.
C8_Witness ==
    /\ rootKind # "dir"
    /\ mgr = "dead"
    /\ shutting_down

\* C9: after destruction the state file holds the encoding of the
\* in-memory State.
C9_AlwaysPersisted ==
    (mgr = "dead" /\ state.set)
        => stateFile = TextFile(to_json_str(state))

\* C9 (amended): destruction sets shutting-down, raises nothing, and when
\* the filesystem lets the state file be opened and written it ends with
\* the state file holding the encoding of the in-memory State.
C9_PersistedWhenWritable ==
    mgr = "dead"
        => /\ shutting_down
           /\ raised = "none"
           /\ lastOp = "del_io_ok"
                => stateFile = TextFile(to_json_str(state))

\* C9 witness: a manager whose State has files was destroyed and its
\* final save went through.
C9_Witness ==
    /\ mgr = "dead"
    /\ lastOp = "del_io_ok"
    /\ state.files # {}

\* C10: every attempt, however it ends, gives the caller of launch_gather
\* an AssetGather and lets no exception escape.
C10_AlwaysAHandle ==
    FetchEnded => (gather = "returned" /\ raised = "none")

\* C11: valid is false for a gather whose manager has been destroyed.
C11_ValidTracksManager ==
    (gather = "returned" /\ mgr = "dead") => ~valid

RECURSIVE SumLen(_)
\* Total length of a sequence of chunks.
SumLen(cs) ==
    IF cs = <<>> THEN 0
    ELSE SumLen(SubSeq(cs, 1, Len(cs) - 1)) + ChunkLen(cs[Len(cs)])

\* C12: there is one progress report per data read and none per timeout;
\* each reports the total length of the chunks read so far, more than the
\* report before it, and the byte count is that total.
C12_ProgressIncreasing ==
    /\ Len(progress) = Len(DataOf(reads))
    /\ \A i \in 1..Len(progress) :
         /\ progress[i].bytes = SumLen(SubSeq(DataOf(reads), 1, i))
         /\ i > 1 => progress[i].bytes > progress[i - 1].bytes
    /\ file_size_dl = SumLen(DataOf(reads))

\* C12 witness: two reports with a timeout between the two data reads.
C12_Witness ==
    /\ Len(progress) = 2
    /\ Len(reads) >= 3
    /\ reads[1] \in Chunks
    /\ reads[2] = "timeout"

\* C13: no body read is issued before the size header is parsed, and an
\* absent or non-numeric header ends the attempt as bad-response, raised
\* to the caller, with no body read at all.
C13_HeaderFirst ==
    /\ pc = "open" => reads = <<>>
    /\ result = "bad_response"
         => /\ reads = <<>>
            /\ pc = "done"
            /\ gather = "raised"
            /\ FetchEnded => raised \in {"TypeError", "ValueError"}

\* C13 witness: an attempt ended as bad-response.
C13_Witness ==
    /\ FetchEnded
    /\ result = "bad_response"
    /\ raised = "ValueError"

\* C14: update() called while the manager is not shutting down raises
\* nothing and leaves the state file, the State, rootdir and the flag as
\* they were; the update() of the shutdown saves, and a further save of the
\* same State would leave the persisted content as it is.
C14_UpdateSavesIffShuttingDown ==
    [][/\ lastOp' = "update"
            => /\ ~shutting_down
               /\ mvars' = mvars
               /\ raised' = "none"
       /\ lastOp' = "del_io_ok"
            => /\ shutting_down'
               /\ stateFile' = TextFile(to_json_str(state'))
               /\ update(TRUE, rootKind', stateFile', state', "ok", <<>>).file
                     = stateFile']_vars

\* C14 witness: update() ran on a live manager whose state file does not
\* hold the encoding of its State, and left it so.
C14_Witness ==
    /\ lastOp = "update"
    /\ ~shutting_down
    /\ state.files # {}
    /\ stateFile # TextFile(to_json_str(state))

\* C15: a save that fails, in save_state or in the shutdown, raises nothing
\* and leaves the in-memory State as it was.
C15_FailedSaveSwallowed ==
    [][lastOp' \in {"save_io_failed", "del_io_failed"}
         => (raised' = "none" /\ state' = state)]_vars

\* C15 witness: a save of a State with files failed and the state file does
\* not hold its encoding.
C15_Witness ==
    /\ lastOp = "save_io_failed"
    /\ state.files # {}
    /\ stateFile # TextFile(to_json_str(state))

\* C16: an attempt moves from pending to in progress to one terminal
\* outcome; it completes only on a read that returns no data, and once it
\* has ended no read is issued, nothing is written and nothing reported.
C16_StateMachine ==
    [][/\ pc \in {"idle", "done"} => pc' \in {pc, "open"}
       /\ pc = "open" => pc' \in {"open", "read", "done"}
       /\ pc \in {"read", "sleep"} => pc' \in {"read", "sleep", "done"}
       /\ (result' = "completed" /\ result # "completed")
            => (pc = "read" /\ reads' = Append(reads, "eof"))
       /\ (pc = "done" /\ pc' = "done")
            => /\ reads' = reads
               /\ dlFile' = dlFile
               /\ progress' = progress
               /\ result' = result
       /\ (pc' = "done") = (result' # "none")]_vars

\* C16 witness: a completed attempt after which the manager went on.
C16_Witness ==
    /\ pc = "done"
    /\ result = "completed"
    /\ DataOf(reads) # <<>>
    /\ lastOp = "save_io_ok"

\* C17: every fetch_url call ends, completed or aborted, also against a
\* stream that stalls for ever.
C17_Terminates == (pc \in {"open", "read", "sleep"}) ~> (pc = "done")

\* C17 witness: a call against a stream that only ever timed out has ended.
C17_Witness ==
    /\ pc = "done"
    /\ reads # <<>>
    /\ \A i \in 1..Len(reads) : reads[i] = "timeout"

\* Number of timed-out reads in a log.
TimeoutsIn(log) == Len(SelectSeq(log, LAMBDA r : r = "timeout"))

C19_OnlyTimeoutDeletes ==
    [][/\ (dlFile.exists /\ ~dlFile'.exists) => result' = "timeout_exhausted"
       /\ (pc = "read" /\ reads' = Append(reads, "error"))
            => /\ pc' = "done"
               /\ result' = "io_error"
               /\ raised' = "OSError"
               /\ gather' = "raised"
               /\ dlFile' = [exists |-> TRUE, data |-> DataOf(reads)]]_vars

\* C19 witness: a read failed after data had been written.
C19_Witness ==
    /\ FetchEnded
    /\ result = "io_error"
    /\ reads # <<>>
    /\ reads[Len(reads)] = "error"
    /\ DataOf(reads) # <<>>
    /\ dlFile.data = DataOf(reads)

\* C20: a failed open or a bad header leaves the output path as it was;
\* the file is created or truncated once the header is parsed, and a
\* completed attempt holds only the bytes of that attempt.
C20_TruncateAfterHeader ==
    [][/\ pc' = "open" => dlFile' = dlFile
       /\ (pc = "open" /\ pc' = "done")
            => /\ dlFile' = dlFile
               /\ result' \in {"io_error", "bad_response"}
       /\ (pc = "open" /\ pc' = "read")
            => dlFile' = [exists |-> TRUE, data |-> <<>>]
       /\ result' = "completed"
            => dlFile' = [exists |-> TRUE, data |-> DataOf(reads')]]_vars

\* C20 witness: a bad header in front of a file that held earlier content.
C20_Witness ==
    /\ FetchEnded
    /\ result = "bad_response"
    /\ dlFile.exists
    /\ dlFile.data # <<>>

====
